---- MODULE Spec2Model ----
(***************************************************************************)
(* State-machine model of the todo-cli interactive session:                *)
(*   src/src/database.ts   - the persisted array of todo records           *)
(*   src/src/controller.ts - view state, derived views, command handlers   *)
(*   src/unnamed/part_000  - terminal.ts, the validating key/line reader   *)
(*   src/src/index.ts      - the session loop and the key dispatch table   *)
(*                                                                         *)
(* Text is a tuple of one-character strings.  A key chunk is what one raw  *)
(* stdin "data" event delivers (one letter, or several characters for an   *)
(* escape sequence such as an arrow key); a line is what one line-mode     *)
(* "data" event delivers before it is trimmed.                             *)
(***************************************************************************)
EXTENDS Integers, Sequences, FiniteSets, TLC

VARIABLES db, page, pageSize, search, order, sortBy, hideCompleted,
          selectedTodoId, pc, availableActions, lastMsg, renders

vars == <<db, page, pageSize, search, order, sortBy, hideCompleted,
          selectedTodoId, pc, availableActions, lastMsg, renders>>

viewVars == <<page, pageSize, search, order, sortBy, hideCompleted,
              selectedTodoId>>

----------------------------------------------------------------------------
(* Bounds of the model and the inputs the environment may deliver.         *)

\* Largest number of records the store holds (add is cut off beyond it).
MaxTodos == 2

\* Largest reading of the wall clock, in abstract ticks.
MaxTime == 2

\* Raw-mode key chunks: command letters in either case, a letter that is no
\* command, and the escape sequence of the up arrow key (ESC [ A).
Keys ==
    { <<"q">>, <<"l">>, <<"a">>, <<"s">>, <<"x">>, <<"d">>, <<"e">>, <<"b">>,
      <<"r">>, <<"z">>, <<"v">>, <<"c">>, <<"w">>, <<"t">>, <<"k">>,
      <<"A">>, <<"S">>, <<"ESC", "[", "A">> }

\* Lines typed at the free-text prompts (title, new title), before trimming.
TextLines == { <<>>, <<" ", "a", " ">> }

\* Lines typed at the search prompt.
SearchLines == { <<>>, <<"A">> }

\* Lines typed at the todo index prompt.
IndexLines == { <<"0">>, <<"1">>, <<"0", "2">>, <<"3">>, <<"x">> }

\* Lines typed at the page size prompt.
SizeLines == { <<"0">>, <<"1">>, <<"x">> }

----------------------------------------------------------------------------
(* Text helpers: String.prototype.trim / toUpperCase / split, Number().    *)

Min(a, b) == IF a < b THEN a ELSE b

IsSpace(ch) == ch \in {" ", "\t"}

RECURSIVE TrimStart(_)
TrimStart(s) ==
    IF s # <<>> /\ IsSpace(Head(s)) THEN TrimStart(Tail(s)) ELSE s

RECURSIVE TrimEnd(_)
TrimEnd(s) ==
    IF s # <<>> /\ IsSpace(s[Len(s)]) THEN TrimEnd(SubSeq(s, 1, Len(s) - 1))
    ELSE s

Trim(s) == TrimEnd(TrimStart(s))

ToUpperChar(ch) ==
    CASE ch = "a" -> "A" [] ch = "b" -> "B" [] ch = "c" -> "C"
      [] ch = "d" -> "D" [] ch = "e" -> "E" [] ch = "k" -> "K"
      [] ch = "l" -> "L" [] ch = "q" -> "Q" [] ch = "r" -> "R"
      [] ch = "s" -> "S" [] ch = "t" -> "T" [] ch = "v" -> "V"
      [] ch = "w" -> "W" [] ch = "x" -> "X" [] ch = "z" -> "Z"
      [] OTHER -> ch

ToUpperCase(s) == [i \in 1..Len(s) |-> ToUpperChar(s[i])]

IsDigit(ch) == ch \in {"0", "1", "2", "3", "4", "5", "6", "7", "8", "9"}

DigitValue(ch) ==
    CASE ch = "0" -> 0 [] ch = "1" -> 1 [] ch = "2" -> 2 [] ch = "3" -> 3
      [] ch = "4" -> 4 [] ch = "5" -> 5 [] ch = "6" -> 6 [] ch = "7" -> 7
      [] ch = "8" -> 8 [] ch = "9" -> 9

\* Number(text) for a text of decimal digits.
RECURSIVE ToNumber(_)
ToNumber(s) ==
    IF s = <<>> THEN 0
    ELSE 10 * ToNumber(SubSeq(s, 1, Len(s) - 1)) + DigitValue(s[Len(s)])

\* text.split(" "): the pieces between single spaces (empty pieces kept).
RECURSIVE SplitOnSpace(_)
SplitOnSpace(s) ==
    IF \A i \in 1..Len(s) : s[i] # " " THEN <<s>>
    ELSE LET i == CHOOSE j \in 1..Len(s) :
                      s[j] = " " /\ \A m \in 1..(j - 1) : s[m] # " "
         IN  <<SubSeq(s, 1, i - 1)>> \o SplitOnSpace(SubSeq(s, i + 1, Len(s)))

----------------------------------------------------------------------------
(* The accept patterns of the reader.                                      *)

\* /.+/ : some character other than a line break.
MatchesNonEmpty(s) == Len(s) >= 1

\* /.*/ : everything.
MatchesAny(s) == TRUE

\* /^[0-9]+$/ : one or more decimal digits and nothing else.
MatchesNumber(s) == Len(s) >= 1 /\ \A i \in 1..Len(s) : IsDigit(s[i])

\* The letters before " - " of the offered action labels, joined with "|".
BuildActionsRegex(actions) ==
    { actions[i] : i \in 1..Len(actions) }

\* regex.test(input) for the unanchored, case-insensitive alternation of
\* single letters that _buildActionsRegex builds.
ActionsRegexTest(regex, input) ==
    \E i \in 1..Len(input) : ToUpperChar(input[i]) \in regex

----------------------------------------------------------------------------
(* The search pattern: _escapeRegex, then new RegExp(pattern, "gi").test.  *)

\* The characters of the class [-[\]{}()*+?.,\\^$|#\s].
IsRegexSpecial(ch) ==
    \/ ch \in {"-", "[", "]", "{", "}", "(", ")", "*", "+", "?", ".", ",",
               "\\", "^", "$", "|", "#"}
    \/ IsSpace(ch)

\* text.replace(/[-[\]{}()*+?.,\\^$|#\s]/g, "\\$&"): a backslash before
\* every special character.
RECURSIVE EscapeRegex(_)
EscapeRegex(text) ==
    IF text = <<>> THEN <<>>
    ELSE (IF IsRegexSpecial(Head(text)) THEN <<"\\", Head(text)>>
          ELSE <<Head(text)>>) \o EscapeRegex(Tail(text))

\* The atoms of a pattern source: a backslash makes the next character a
\* literal, a bare "." matches any character, anything else is itself.
RECURSIVE ParseRegex(_)
ParseRegex(p) ==
    IF p = <<>> THEN <<>>
    ELSE IF Head(p) = "\\" /\ Len(p) >= 2
         THEN <<[any |-> FALSE, ch |-> p[2]]>> \o ParseRegex(SubSeq(p, 3, Len(p)))
         ELSE IF Head(p) = "."
              THEN <<[any |-> TRUE, ch |-> "."]>> \o ParseRegex(Tail(p))
              ELSE <<[any |-> FALSE, ch |-> Head(p)]>> \o ParseRegex(Tail(p))

\* new RegExp(source, "gi").test(text) on a fresh regex: the atoms match
\* somewhere in the text, letters compared without case.
RegexTest(source, text) ==
    LET atoms == ParseRegex(source)
    IN  \E start \in 0..(Len(text) - Len(atoms)) :
            \A i \in 1..Len(atoms) :
                \/ atoms[i].any
                \/ ToUpperChar(atoms[i].ch) = ToUpperChar(text[start + i])

----------------------------------------------------------------------------
(* String.prototype.localeCompare, for titles over the characters used.    *)

\* Primary collation weight: space and punctuation, then digits, then
\* letters (a letter and its capital share a weight).
PrimaryWeight(ch) ==
    CASE ch = " " -> 1 [] ch = "\t" -> 1 [] ch = "." -> 2
      [] IsDigit(ch) -> 10 + DigitValue(ch)
      [] ToUpperChar(ch) = "A" -> 30 [] ToUpperChar(ch) = "B" -> 31
      [] OTHER -> 40

\* Tertiary weight: a small letter before its capital.
CaseWeight(ch) == IF ToUpperChar(ch) = ch THEN 1 ELSE 0

\* Lexicographic comparison of the primary weights, a proper prefix first.
RECURSIVE ComparePrimary(_, _)
ComparePrimary(s, t) ==
    IF s = <<>> /\ t = <<>> THEN 0
    ELSE IF s = <<>> THEN -1
    ELSE IF t = <<>> THEN 1
    ELSE IF PrimaryWeight(Head(s)) < PrimaryWeight(Head(t)) THEN -1
    ELSE IF PrimaryWeight(Head(s)) > PrimaryWeight(Head(t)) THEN 1
    ELSE ComparePrimary(Tail(s), Tail(t))

\* The same of the case weights, for texts with equal primary weights.
RECURSIVE CompareCase(_, _)
CompareCase(s, t) ==
    IF s = <<>> \/ t = <<>> THEN 0
    ELSE IF CaseWeight(Head(s)) < CaseWeight(Head(t)) THEN -1
    ELSE IF CaseWeight(Head(s)) > CaseWeight(Head(t)) THEN 1
    ELSE CompareCase(Tail(s), Tail(t))

LocaleCompare(s, t) ==
    IF ComparePrimary(s, t) # 0 THEN ComparePrimary(s, t)
    ELSE CompareCase(s, t)

\* localeCompare of two ISO-8601 timestamps of the same clock: the order of
\* the instants.
TimestampCompare(a, b) == IF a < b THEN -1 ELSE IF a > b THEN 1 ELSE 0

----------------------------------------------------------------------------
(* database.ts: operations on the stored array.                            *)

\* todos.find((todo) => todo.id === id): the first position with the id, or
\* 0 when there is none.
FindIndex(todos, id) ==
    IF \E i \in 1..Len(todos) : todos[i].id = id
    THEN CHOOSE i \in 1..Len(todos) :
             todos[i].id = id /\ \A j \in 1..(i - 1) : todos[j].id # id
    ELSE 0

\* Faulty variant of DbAddTodo: the new id is one more than the largest id
\* stored instead of one more than the number of records.
DbAddTodoMaxId(todos, todo, now) ==
    LET ids   == { todos[i].id : i \in 1..Len(todos) }
        maxId == IF ids = {} THEN 0
                 ELSE CHOOSE m \in ids : \A n \in ids : n <= m
    IN  Append(todos, [id |-> maxId + 1, timestamp |-> now,
                       title |-> todo, done |-> FALSE])

DbAddTodo(todos, todo, now) ==
    Append(todos, [id |-> Len(todos) + 1, timestamp |-> now,
                   title |-> todo, done |-> FALSE])

DbToggleTodoDone(todos, id) ==
    LET i == FindIndex(todos, id)
    IN  IF i = 0 THEN todos
        ELSE [todos EXCEPT ![i].done = ~todos[i].done]

DbDeleteTodo(todos, id) ==
    LET i == FindIndex(todos, id)
    IN  IF i = 0 THEN todos
        ELSE SubSeq(todos, 1, i - 1) \o SubSeq(todos, i + 1, Len(todos))

DbEditTodo(todos, id, title) ==
    LET i == FindIndex(todos, id)
    IN  IF i = 0 THEN todos
        ELSE [todos EXCEPT ![i].title = title]

----------------------------------------------------------------------------
(* controller.ts: the derived views (_getFilteredTodos, _getVisibleTodos,  *)
(* _getSelectedTodo, _getMaxPage) as functions of the stored array and the *)
(* view state.  The selection is <<>> for null and <<id>> for an id.       *)

\* Faulty variant of SortCompare: by status the records done come first.
SortCompareDoneFirst(sBy, a, b) ==
    IF sBy = "status"
    THEN IF a.done = b.done THEN TimestampCompare(a.timestamp, b.timestamp)
         ELSE IF a.done THEN -1 ELSE 1
    ELSE LocaleCompare(a.title, b.title)

\* The comparator handed to todos.sort for sort key sBy.
SortCompare(sBy, a, b) ==
    IF sBy = "status"
    THEN IF a.done = b.done THEN TimestampCompare(a.timestamp, b.timestamp)
         ELSE IF a.done THEN 1 ELSE -1
    ELSE LocaleCompare(a.title, b.title)

\* Array.prototype.sort is stable: x goes behind every element that does
\* not compare greater than it.
RECURSIVE InsertSorted(_, _, _)
InsertSorted(sBy, x, s) ==
    IF s = <<>> THEN <<x>>
    ELSE IF SortCompare(sBy, Head(s), x) <= 0
         THEN <<Head(s)>> \o InsertSorted(sBy, x, Tail(s))
         ELSE <<x>> \o s

RECURSIVE ArraySort(_, _)
ArraySort(sBy, todos) ==
    IF todos = <<>> THEN <<>>
    ELSE InsertSorted(sBy, todos[Len(todos)],
                      ArraySort(sBy, SubSeq(todos, 1, Len(todos) - 1)))

Reverse(s) == [i \in 1..Len(s) |-> s[Len(s) + 1 - i]]

\* A record passes the search when every piece of the search text, trimmed
\* and escaped, is found in its title.
MatchesSearch(todo, srch) ==
    LET searchTerms == SplitOnSpace(srch)
    IN  \A k \in 1..Len(searchTerms) :
            RegexTest(EscapeRegex(Trim(searchTerms[k])), todo.title)

\* The records left by the hide-completed and search filters, in stored
\* order (the part of _getFilteredTodos before the sort).
FilterTodos(todos, hide, srch) ==
    LET shown   == IF hide THEN SelectSeq(todos, LAMBDA t : ~t.done)
                   ELSE todos
    IN  IF srch # <<>>
        THEN SelectSeq(shown, LAMBDA t : MatchesSearch(t, srch))
        ELSE shown

\* The comparator reads a[this._sortBy].localeCompare: with a sort key that
\* is no field of a record this throws as soon as two records are compared.
SortThrows(todos, hide, srch, sBy) ==
    /\ sBy \notin {"timestamp", "status", "title"}
    /\ Len(FilterTodos(todos, hide, srch)) >= 2

\* Faulty variant of FilteredTodos: descending order reverses only a
\* sequence that was sorted.
FilteredTodosReverseSortedOnly(todos, hide, srch, sBy, ord) ==
    LET filtered == FilterTodos(todos, hide, srch)
        sorted   == IF sBy # "timestamp" /\ Len(filtered) >= 2
                    THEN ArraySort(sBy, filtered)
                    ELSE filtered
    IN  IF ord = "desc" /\ sBy # "timestamp" THEN Reverse(sorted)
        ELSE sorted

FilteredTodos(todos, hide, srch, sBy, ord) ==
    LET filtered == FilterTodos(todos, hide, srch)
        sorted   == IF sBy # "timestamp" /\ Len(filtered) >= 2
                    THEN ArraySort(sBy, filtered)
                    ELSE filtered
    IN  IF ord = "desc" THEN Reverse(sorted) ELSE sorted

\* Faulty variant of Slice: the element at the start position is left out.
SliceAfterStart(todos, from, to) ==
    IF from + 1 >= Len(todos) \/ to <= from + 1 THEN <<>>
    ELSE SubSeq(todos, from + 2, Min(to, Len(todos)))

\* todos.slice((page - 1) * pageSize, page * pageSize)
Slice(todos, from, to) ==
    IF from >= Len(todos) \/ to <= from THEN <<>>
    ELSE SubSeq(todos, from + 1, Min(to, Len(todos)))

VisibleTodos(todos, hide, srch, sBy, ord, pg, size) ==
    Slice(FilteredTodos(todos, hide, srch, sBy, ord),
          (pg - 1) * size, pg * size)

\* Math.ceil(length / pageSize)
MaxPage(todos, hide, srch, sBy, ord, size) ==
    (Len(FilteredTodos(todos, hide, srch, sBy, ord)) + size - 1) \div size

\* !this._selectedTodoId is false
IsSelectionSet(sel) == sel # <<>> /\ sel[1] # 0

\* Faulty variant of SelectedTodo: the selection is read as a position of
\* the visible page instead of an id.
SelectedTodoByPosition(visible, sel) ==
    IF IsSelectionSet(sel) /\ sel[1] <= Len(visible)
    THEN <<visible[sel[1]]>>
    ELSE <<>>

\* The first record of the visible page with the selected id: <<>> for
\* none, <<todo>> otherwise.
SelectedTodo(visible, sel) ==
    IF IsSelectionSet(sel) /\ FindIndex(visible, sel[1]) # 0
    THEN <<visible[FindIndex(visible, sel[1])]>>
    ELSE <<>>

\* The same views of the current state.
GetFilteredTodos ==
    FilteredTodos(db, hideCompleted, search, sortBy, order)

GetVisibleTodos ==
    VisibleTodos(db, hideCompleted, search, sortBy, order, page, pageSize)

GetMaxPage == MaxPage(db, hideCompleted, search, sortBy, order, pageSize)

GetSelectedTodo == SelectedTodo(GetVisibleTodos, selectedTodoId)

\* Faulty variant of AvailableActions: search is offered iff the filtered
\* set, instead of the stored dataset, is non-empty.
AvailableActionsSearchOnFiltered(todos, hide, srch, sBy, ord, pg, size, sel) ==
    LET visible == VisibleTodos(todos, hide, srch, sBy, ord, pg, size)
    IN  IF SelectedTodo(visible, sel) # <<>>
        THEN <<"S", "X", "D", "E">>
        ELSE <<"Q", "L", "A", "R", "Z", "W">>
             \o (IF pg > 1 THEN <<"C">> ELSE <<>>)
             \o (IF pg < MaxPage(todos, hide, srch, sBy, ord, size)
                 THEN <<"V">> ELSE <<>>)
             \o (IF Len(FilterTodos(todos, hide, srch)) > 0
                 THEN <<"B">> ELSE <<>>)
             \o (IF Len(visible) > 0 THEN <<"S">> ELSE <<>>)

\* Faulty variant of AvailableActions: previous page is offered only on a
\* page within the range of the filtered set.
AvailableActionsPreviousInRange(todos, hide, srch, sBy, ord, pg, size, sel) ==
    LET visible == VisibleTodos(todos, hide, srch, sBy, ord, pg, size)
    IN  IF SelectedTodo(visible, sel) # <<>>
        THEN <<"S", "X", "D", "E">>
        ELSE <<"Q", "L", "A", "R", "Z", "W">>
             \o (IF pg > 1 /\ pg <= MaxPage(todos, hide, srch, sBy, ord, size)
                 THEN <<"C">> ELSE <<>>)
             \o (IF pg < MaxPage(todos, hide, srch, sBy, ord, size)
                 THEN <<"V">> ELSE <<>>)
             \o (IF Len(todos) > 0 THEN <<"B">> ELSE <<>>)
             \o (IF Len(visible) > 0 THEN <<"S">> ELSE <<>>)

\* Faulty variant of AvailableActions: select is offered whether or not the
\* visible page has records.
AvailableActionsSelectAlways(todos, hide, srch, sBy, ord, pg, size, sel) ==
    LET visible == VisibleTodos(todos, hide, srch, sBy, ord, pg, size)
    IN  IF SelectedTodo(visible, sel) # <<>>
        THEN <<"S", "X", "D", "E">>
        ELSE <<"Q", "L", "A", "R", "Z", "W">>
             \o (IF pg > 1 THEN <<"C">> ELSE <<>>)
             \o (IF pg < MaxPage(todos, hide, srch, sBy, ord, size)
                 THEN <<"V">> ELSE <<>>)
             \o (IF Len(todos) > 0 THEN <<"B">> ELSE <<>>)
             \o <<"S">>

\* listActions: the letters of the offered actions, in the order listed.
AvailableActions(todos, hide, srch, sBy, ord, pg, size, sel) ==
    LET visible == VisibleTodos(todos, hide, srch, sBy, ord, pg, size)
    IN  IF SelectedTodo(visible, sel) # <<>>
        THEN <<"S", "X", "D", "E">>
        ELSE <<"Q", "L", "A", "R", "Z", "W">>
             \o (IF pg > 1 THEN <<"C">> ELSE <<>>)
             \o (IF pg < MaxPage(todos, hide, srch, sBy, ord, size)
                 THEN <<"V">> ELSE <<>>)
             \o (IF Len(todos) > 0 THEN <<"B">> ELSE <<>>)
             \o (IF Len(visible) > 0 THEN <<"S">> ELSE <<>>)

ListActions ==
    AvailableActions(db, hideCompleted, search, sortBy, order, page, pageSize,
                     selectedTodoId)

\* The letters bound to a handler in actionHandlers.
HandlerKeys ==
    {"L", "A", "S", "X", "D", "E", "Q", "B", "R", "Z", "V", "C", "W"}

\* sortByShortcuts[chunk.toUpperCase()]
SortByShortcut(input) ==
    CASE ToUpperCase(input) = <<"T">> -> "title"
      [] ToUpperCase(input) = <<"S">> -> "status"
      [] ToUpperCase(input) = <<"C">> -> "timestamp"
      [] OTHER -> "undefined"

\* orderShortcuts[chunk.toUpperCase()]
OrderShortcut(input) ==
    CASE ToUpperCase(input) = <<"C">> -> "asc"
      [] ToUpperCase(input) = <<"D">> -> "desc"
      [] OTHER -> "undefined"

IsSorted == sortBy # "timestamp" \/ order # "asc"

----------------------------------------------------------------------------
(* The session.  pc is where the process is blocked:                       *)
(*   "menu"                 main loop, requestInputKey(listActions())      *)
(*   "addTodo"              addTodo, requestInputLine(/.+/)                *)
(*   "selectTodo"           selectTodo, requestInputLine(/^[0-9]+$/)       *)
(*   "editTodo"             editTodo, requestInputLine(/.*/)               *)
(*   "searchTodo"           searchTodo, requestInputLine(/.*/)             *)
(*   "sortTodos_sortBy"     sortTodos, first requestInputKey               *)
(*   "sortTodos_order"      sortTodos, second requestInputKey              *)
(*   "changePageSize"       changePageSize, requestInputLine(/^[0-9]+$/)   *)
(*   "exited"               after process.exit(0)                          *)
(*   "crashed"              after an exception left main()                 *)
(* availableActions is the pattern the main loop got from its last         *)
(* listActions() call and hands to requestInputKey.                        *)
(* lastMsg is the error message the last step wrote, "" when it wrote none.*)
(* renders counts the completed controller.listTodos() calls since the     *)
(* main loop last got a chunk back from requestInputKey (since the start   *)
(* of main() before the first one).                                        *)

Init ==
    /\ db = <<>>
    /\ page = 1
    /\ pageSize = 10
    /\ search = <<>>
    /\ order = "asc"
    /\ sortBy = "timestamp"
    /\ hideCompleted = FALSE
    /\ selectedTodoId = <<>>
    /\ pc = "menu"
    /\ availableActions = BuildActionsRegex(ListActions)
    /\ lastMsg = ""
    /\ renders = 1

\* The renders the running handler has completed: none when the handler was
\* just dispatched from the main loop.
RendersOfHandler == IF pc = "menu" THEN 0 ELSE renders

\* controller.listTodos() after a handler: the render computes the derived
\* views of the new state, and the loop goes on to listActions unless that
\* threw.
AfterRender ==
    IF SortThrows(db', hideCompleted', search', sortBy')
    THEN /\ pc' = "crashed"
         /\ UNCHANGED availableActions
         /\ renders' = RendersOfHandler
    ELSE /\ pc' = "menu"
         /\ renders' = RendersOfHandler + 1
         /\ availableActions' =
                BuildActionsRegex(
                    AvailableActions(db', hideCompleted', search', sortBy',
                                     order', page', pageSize',
                                     selectedTodoId'))

\* The pattern of the key prompt the process is blocked at.
AcceptedKeys ==
    CASE pc = "menu" -> availableActions
      [] pc = "sortTodos_sortBy" -> BuildActionsRegex(<<"T", "S", "C">>)
      [] pc = "sortTodos_order" -> BuildActionsRegex(<<"C", "D">>)
      [] OTHER -> {}

\* Whether the line prompt the process is blocked at accepts a trimmed line.
LineAccepted(text) ==
    CASE pc = "addTodo" -> MatchesNonEmpty(text)
      [] pc = "selectTodo" -> MatchesNumber(text)
      [] pc = "changePageSize" -> MatchesNumber(text)
      [] pc = "editTodo" -> MatchesAny(text)
      [] pc = "searchTodo" -> MatchesAny(text)
      [] OTHER -> FALSE

\* _requestInput with _readKey: a chunk the pattern rejects is answered
\* with "Entrada invalida!" and the prompt is repeated.
requestInputKeyRejected(input) ==
    /\ pc \in {"menu", "sortTodos_sortBy", "sortTodos_order"}
    /\ ~ActionsRegexTest(AcceptedKeys, input)
    /\ lastMsg' = "EntradaInvalida"
    /\ UNCHANGED <<db, viewVars, pc, availableActions, renders>>

\* _requestInput with _readLine: the same for a trimmed line.
requestInputLineRejected(line) ==
    /\ pc \in {"addTodo", "selectTodo", "changePageSize", "editTodo",
               "searchTodo"}
    /\ ~LineAccepted(Trim(line))
    /\ lastMsg' = "EntradaInvalida"
    /\ UNCHANGED <<db, viewVars, pc, availableActions, renders>>

\* The main loop read a chunk the offered pattern accepts and dispatches on
\* the upper-cased chunk.
Dispatched(input, letter) ==
    /\ pc = "menu"
    /\ ToUpperCase(input) = <<letter>>
    /\ ActionsRegexTest(AcceptedKeys, input)

\* handleAction without a handler for the chunk: "Acao invalida", and the
\* loop lists the actions again without a render.
handleActionInvalid(input) ==
    /\ pc = "menu"
    /\ \A letter \in HandlerKeys : ToUpperCase(input) # <<letter>>
    /\ ActionsRegexTest(AcceptedKeys, input)
    /\ lastMsg' = "AcaoInvalida"
    /\ renders' = 0
    /\ UNCHANGED <<db, viewVars, pc, availableActions>>

listTodos(input) ==
    /\ Dispatched(input, "L")
    /\ lastMsg' = ""
    /\ UNCHANGED <<db, viewVars>>
    /\ AfterRender

bye(input) ==
    /\ Dispatched(input, "Q")
    /\ pc' = "exited" /\ UNCHANGED availableActions
    /\ renders' = 0
    /\ lastMsg' = ""
    /\ UNCHANGED <<db, viewVars>>

addTodo(input) ==
    /\ Dispatched(input, "A")
    /\ Len(db) < MaxTodos
    /\ pc' = "addTodo" /\ UNCHANGED availableActions
    /\ renders' = 0
    /\ lastMsg' = ""
    /\ UNCHANGED <<db, viewVars>>

\* The latest timestamp stored: the clock does not run backwards.
LastTime ==
    IF db = <<>> THEN 1
    ELSE CHOOSE t \in 1..MaxTime :
             /\ \E i \in 1..Len(db) : db[i].timestamp = t
             /\ \A i \in 1..Len(db) : db[i].timestamp <= t

addTodoLine(line, now) ==
    /\ pc = "addTodo"
    /\ LineAccepted(Trim(line))
    /\ now >= LastTime
    /\ db' = DbAddTodo(db, Trim(line), now)
    /\ lastMsg' = ""
    /\ UNCHANGED viewVars
    /\ AfterRender

selectTodo(input) ==
    /\ Dispatched(input, "S")
    /\ lastMsg' = ""
    /\ IF IsSelectionSet(selectedTodoId)
       THEN /\ selectedTodoId' = <<>>
            /\ UNCHANGED <<db, page, pageSize, search, order, sortBy,
                           hideCompleted>>
            /\ AfterRender
       ELSE /\ pc' = "selectTodo" /\ UNCHANGED availableActions
            /\ renders' = 0
            /\ UNCHANGED <<db, viewVars>>

selectTodoLine(line) ==
    /\ pc = "selectTodo"
    /\ LineAccepted(Trim(line))
    /\ LET index == ToNumber(Trim(line))
           todos == GetVisibleTodos
       IN  IF index < 1 \/ index > Len(todos)
           THEN /\ lastMsg' = "TodoNaoEncontrado"
                /\ UNCHANGED <<db, viewVars, pc, availableActions,
                               renders>>
           ELSE /\ selectedTodoId' = <<todos[index].id>>
                /\ lastMsg' = ""
                /\ UNCHANGED <<db, page, pageSize, search, order, sortBy,
                               hideCompleted>>
                /\ AfterRender

toggleTodoDone(input) ==
    /\ Dispatched(input, "X")
    /\ IF ~IsSelectionSet(selectedTodoId)
       THEN /\ lastMsg' = "NenhumTodoSelecionado"
            /\ UNCHANGED db
       ELSE /\ db' = DbToggleTodoDone(db, selectedTodoId[1])
            /\ lastMsg' = ""
    /\ UNCHANGED viewVars
    /\ AfterRender

\* Faulty variant of deleteTodo: the selection is kept after the delete.
deleteTodoKeepsSelection(input) ==
    /\ Dispatched(input, "D")
    /\ IF ~IsSelectionSet(selectedTodoId)
       THEN /\ lastMsg' = "NenhumTodoSelecionado"
            /\ UNCHANGED db
       ELSE /\ db' = DbDeleteTodo(db, selectedTodoId[1])
            /\ lastMsg' = ""
    /\ UNCHANGED viewVars
    /\ AfterRender

deleteTodo(input) ==
    /\ Dispatched(input, "D")
    /\ IF ~IsSelectionSet(selectedTodoId)
       THEN /\ lastMsg' = "NenhumTodoSelecionado"
            /\ UNCHANGED <<db, selectedTodoId>>
       ELSE /\ db' = DbDeleteTodo(db, selectedTodoId[1])
            /\ selectedTodoId' = <<>>
            /\ lastMsg' = ""
    /\ UNCHANGED <<page, pageSize, search, order, sortBy, hideCompleted>>
    /\ AfterRender

editTodo(input) ==
    /\ Dispatched(input, "E")
    /\ UNCHANGED <<db, viewVars>>
    /\ IF ~IsSelectionSet(selectedTodoId)
       THEN /\ lastMsg' = "NenhumTodoSelecionado"
            /\ AfterRender
       ELSE /\ lastMsg' = ""
            /\ pc' = "editTodo" /\ UNCHANGED availableActions
            /\ renders' = 0

editTodoLine(line) ==
    /\ pc = "editTodo"
    /\ LineAccepted(Trim(line))
    /\ db' = DbEditTodo(db, selectedTodoId[1], Trim(line))
    /\ lastMsg' = ""
    /\ UNCHANGED viewVars
    /\ AfterRender

\* Faulty variant of searchTodo: clearing the search also goes back to
\* page 1.
searchTodoClearResetsPage(input) ==
    /\ Dispatched(input, "B")
    /\ lastMsg' = ""
    /\ IF search # <<>>
       THEN /\ search' = <<>>
            /\ page' = 1
            /\ UNCHANGED <<db, pageSize, order, sortBy, hideCompleted,
                           selectedTodoId>>
            /\ AfterRender
       ELSE /\ pc' = "searchTodo" /\ UNCHANGED availableActions
            /\ renders' = 0
            /\ UNCHANGED <<db, viewVars>>

searchTodo(input) ==
    /\ Dispatched(input, "B")
    /\ lastMsg' = ""
    /\ IF search # <<>>
       THEN /\ search' = <<>>
            /\ UNCHANGED <<db, page, pageSize, order, sortBy, hideCompleted,
                           selectedTodoId>>
            /\ AfterRender
       ELSE /\ pc' = "searchTodo" /\ UNCHANGED availableActions
            /\ renders' = 0
            /\ UNCHANGED <<db, viewVars>>

searchTodoLine(line) ==
    /\ pc = "searchTodo"
    /\ LineAccepted(Trim(line))
    /\ search' = Trim(line)
    /\ lastMsg' = ""
    /\ UNCHANGED <<db, page, pageSize, order, sortBy, hideCompleted,
                   selectedTodoId>>
    /\ AfterRender

toggleHideCompleted(input) ==
    /\ Dispatched(input, "Z")
    /\ hideCompleted' = ~hideCompleted
    /\ lastMsg' = ""
    /\ UNCHANGED <<db, page, pageSize, search, order, sortBy, selectedTodoId>>
    /\ AfterRender

sortTodos(input) ==
    /\ Dispatched(input, "R")
    /\ lastMsg' = ""
    /\ IF IsSorted
       THEN /\ sortBy' = "timestamp"
            /\ order' = "asc"
            /\ UNCHANGED <<db, page, pageSize, search, hideCompleted,
                           selectedTodoId>>
            /\ AfterRender
       ELSE /\ pc' = "sortTodos_sortBy" /\ UNCHANGED availableActions
            /\ renders' = 0
            /\ UNCHANGED <<db, viewVars>>

sortTodosSortBy(input) ==
    /\ pc = "sortTodos_sortBy"
    /\ ActionsRegexTest(AcceptedKeys, input)
    /\ sortBy' = SortByShortcut(input)
    /\ pc' = "sortTodos_order" /\ UNCHANGED <<availableActions, renders>>
    /\ lastMsg' = ""
    /\ UNCHANGED <<db, page, pageSize, search, order, hideCompleted,
                   selectedTodoId>>

\* Faulty variant of sortTodosOrder: the sorted array is written back to the
\* store.
sortTodosOrderSortsStore(input) ==
    /\ pc = "sortTodos_order"
    /\ ActionsRegexTest(AcceptedKeys, input)
    /\ order' = OrderShortcut(input)
    /\ db' = FilteredTodos(db, FALSE, <<>>, sortBy, OrderShortcut(input))
    /\ lastMsg' = ""
    /\ UNCHANGED <<page, pageSize, search, sortBy, hideCompleted,
                   selectedTodoId>>
    /\ AfterRender

sortTodosOrder(input) ==
    /\ pc = "sortTodos_order"
    /\ ActionsRegexTest(AcceptedKeys, input)
    /\ order' = OrderShortcut(input)
    /\ lastMsg' = ""
    /\ UNCHANGED <<db, page, pageSize, search, sortBy, hideCompleted,
                   selectedTodoId>>
    /\ AfterRender

nextPage(input) ==
    /\ Dispatched(input, "V")
    /\ page' = page + 1
    /\ lastMsg' = ""
    /\ UNCHANGED <<db, pageSize, search, order, sortBy, hideCompleted,
                   selectedTodoId>>
    /\ AfterRender

previousPage(input) ==
    /\ Dispatched(input, "C")
    /\ page' = page - 1
    /\ lastMsg' = ""
    /\ UNCHANGED <<db, pageSize, search, order, sortBy, hideCompleted,
                   selectedTodoId>>
    /\ AfterRender

changePageSize(input) ==
    /\ Dispatched(input, "W")
    /\ pc' = "changePageSize" /\ UNCHANGED availableActions
    /\ renders' = 0
    /\ lastMsg' = ""
    /\ UNCHANGED <<db, viewVars>>

\* Faulty variant of changePageSizeLine: a new page size also resets the
\* page to 1.
changePageSizeLineResetsPage(line) ==
    /\ pc = "changePageSize"
    /\ LineAccepted(Trim(line))
    /\ LET size == ToNumber(Trim(line))
       IN  IF size < 1
           THEN /\ lastMsg' = "NumeroInvalido"
                /\ UNCHANGED <<db, viewVars, pc, availableActions,
                               renders>>
           ELSE /\ pageSize' = size
                /\ page' = 1
                /\ lastMsg' = ""
                /\ UNCHANGED <<db, search, order, sortBy, hideCompleted,
                               selectedTodoId>>
                /\ AfterRender

changePageSizeLine(line) ==
    /\ pc = "changePageSize"
    /\ LineAccepted(Trim(line))
    /\ LET size == ToNumber(Trim(line))
       IN  IF size < 1
           THEN /\ lastMsg' = "NumeroInvalido"
                /\ UNCHANGED <<db, viewVars, pc, availableActions,
                               renders>>
           ELSE /\ pageSize' = size
                /\ lastMsg' = ""
                /\ UNCHANGED <<db, page, search, order, sortBy,
                               hideCompleted, selectedTodoId>>
                /\ AfterRender

Next ==
    \/ \E input \in Keys :
           \/ requestInputKeyRejected(input)
           \/ handleActionInvalid(input)
           \/ listTodos(input)
           \/ bye(input)
           \/ addTodo(input)
           \/ selectTodo(input)
           \/ toggleTodoDone(input)
           \/ deleteTodo(input)
           \/ editTodo(input)
           \/ searchTodo(input)
           \/ toggleHideCompleted(input)
           \/ sortTodos(input)
           \/ sortTodosSortBy(input)
           \/ sortTodosOrder(input)
           \/ nextPage(input)
           \/ previousPage(input)
           \/ changePageSize(input)
    \/ \E line \in TextLines :
           \/ requestInputLineRejected(line)
           \/ editTodoLine(line)
           \/ \E now \in 1..MaxTime : addTodoLine(line, now)
    \/ \E line \in SearchLines : searchTodoLine(line)
    \/ \E line \in IndexLines :
           \/ requestInputLineRejected(line)
           \/ selectTodoLine(line)
    \/ \E line \in SizeLines :
           \/ requestInputLineRejected(line)
           \/ changePageSizeLine(line)

Spec == Init /\ [][Next]_vars

----------------------------------------------------------------------------
(* Properties of the session.                                              *)

\* The ids stored, and the maximum page as the specification defines it:
\* ceil(filteredCount / pageSize), and 1 for an empty filtered set.
StoredIds == { db[i].id : i \in 1..Len(db) }

SpecMaxPage ==
    IF Len(GetFilteredTodos) = 0 THEN 1
    ELSE (Len(GetFilteredTodos) + pageSize - 1) \div pageSize

\* A todo is resolved-selected: the selection is set and a record of the
\* visible page has the selected id.
ResolvedSelected ==
    /\ selectedTodoId # <<>>
    /\ \E i \in 1..Len(GetVisibleTodos) :
           GetVisibleTodos[i].id = selectedTodoId[1]

\* Some step of the session that reads the key chunk input.
KeyStep(input) ==
    \/ requestInputKeyRejected(input)
    \/ handleActionInvalid(input)
    \/ listTodos(input)
    \/ bye(input)
    \/ addTodo(input)
    \/ selectTodo(input)
    \/ toggleTodoDone(input)
    \/ deleteTodo(input)
    \/ editTodo(input)
    \/ searchTodo(input)
    \/ toggleHideCompleted(input)
    \/ sortTodos(input)
    \/ sortTodosSortBy(input)
    \/ sortTodosOrder(input)
    \/ nextPage(input)
    \/ previousPage(input)
    \/ changePageSize(input)

\* C1: in every reachable state page is within [1, maxPage], maxPage being
\* ceil(filteredCount / pageSize) and 1 for an empty filtered set.
C1_PageWithinRange ==
    pc # "crashed" => page >= 1 /\ page <= SpecMaxPage

\* C2: the maximum page the engine computes (the one the list render shows
\* as page/maxPage) is at least 1 in every reachable state, also for an
\* empty filtered set.
C2_MaxPageAtLeastOne ==
    pc # "crashed" => GetMaxPage >= 1

\* C3: the stored records have pairwise distinct ids in every reachable
\* state.
C3_DistinctIds ==
    \A i \in 1..Len(db) : \A j \in 1..Len(db) :
        i # j => db[i].id # db[j].id

\* C4: when the loop offers commands and no todo is resolved-selected, the
\* offered set is exactly Q, L, A, R, Z, W, plus C iff page > 1, V iff
\* page < maxPage, B iff the stored dataset is non-empty, S iff the visible
\* page is non-empty.
C4_BaseOffer ==
    (pc = "menu" /\ ~ResolvedSelected) =>
        availableActions =
            {"Q", "L", "A", "R", "Z", "W"}
            \cup (IF page > 1 THEN {"C"} ELSE {})
            \cup (IF page < SpecMaxPage THEN {"V"} ELSE {})
            \cup (IF db # <<>> THEN {"B"} ELSE {})
            \cup (IF GetVisibleTodos # <<>> THEN {"S"} ELSE {})

\* The loop offers commands on a page after the first, which is the last
\* one and shows a record, with a search active that not every stored
\* record passes, and no todo resolved-selected.
C4_Witness ==
    /\ pc = "menu"
    /\ ~ResolvedSelected
    /\ page > 1
    /\ page = SpecMaxPage
    /\ GetVisibleTodos # <<>>
    /\ availableActions = {"Q", "L", "A", "R", "Z", "W", "C", "B", "S"}

\* C5: when the loop offers commands and a todo is resolved-selected, the
\* offered set is exactly S, X, D, E.
C5_SelectedOffer ==
    (pc = "menu" /\ ResolvedSelected) =>
        availableActions = {"S", "X", "D", "E"}

\* The loop offers S, X, D, E for a selected record on the second page.
C5_Witness ==
    /\ pc = "menu"
    /\ ResolvedSelected
    /\ page = 2
    /\ availableActions = {"S", "X", "D", "E"}

\* C6: at the command prompt a key chunk that is not one of the offered
\* letters is re-prompted by the key reader ("Entrada invalida!"), runs no
\* handler and changes neither view state nor store.
C6_UnofferedKeyReprompted ==
    [][\A input \in Keys :
           ( /\ pc = "menu"
             /\ ~(Len(input) = 1 /\ ToUpperChar(input[1]) \in availableActions)
             /\ KeyStep(input) )
           => ( /\ lastMsg' = "EntradaInvalida"
                /\ UNCHANGED <<db, viewVars, pc>> )]_vars

\* C7: with the selection set but on no record of the visible page, the
\* offered commands act as with the selection unset; in particular S
\* prompts for an index.
C7_UnresolvedActsAsUnselected ==
    [][\A input \in Keys :
           ( /\ pc = "menu"
             /\ selectedTodoId # <<>>
             /\ ~ResolvedSelected
             /\ selectTodo(input) )
           => ( /\ pc' = "selectTodo"
                /\ UNCHANGED <<db, viewVars>> )]_vars

\* C8 as stated: whenever the loop offers commands the selection is unset
\* or is the id of a record of the visible page.
C8_SelectionOnVisiblePage ==
    pc = "menu" => (selectedTodoId = <<>> \/ ResolvedSelected)

\* C8 as amended: whenever the loop offers commands the selection is unset
\* or is the id of a stored record (which toggle-done under hide-completed,
\* or edit under a search, may have taken off the visible page).
C8_SelectionInStore ==
    pc = "menu" => (selectedTodoId = <<>> \/ selectedTodoId[1] \in StoredIds)

\* The loop offers commands with completed records hidden and the
\* selection set to a stored, completed record that is on no visible page.
C8_Witness ==
    /\ pc = "menu"
    /\ hideCompleted
    /\ selectedTodoId # <<>>
    /\ ~ResolvedSelected
    /\ \E i \in 1..Len(db) : db[i].id = selectedTodoId[1] /\ db[i].done

\* C9: toggle-done with a resolved selection flips done on exactly the
\* record shown as selected, changes nothing else of the store, and leaves
\* the view state unchanged.
C9_ToggleFlipsShownRecord ==
    [][\A input \in Keys :
           ( /\ pc = "menu"
             /\ ResolvedSelected
             /\ toggleTodoDone(input) )
           => ( /\ \E i \in 1..Len(db) :
                       /\ db[i] = GetSelectedTodo[1]
                       /\ db' = [db EXCEPT ![i].done = ~db[i].done]
                /\ UNCHANGED viewVars )]_vars

\* C10: delete with a resolved selection removes exactly the record shown
\* as selected, keeps the other records in order, and unsets the selection.
C10_DeleteRemovesShownRecord ==
    [][\A input \in Keys :
           ( /\ pc = "menu"
             /\ ResolvedSelected
             /\ deleteTodo(input) )
           => ( /\ \E i \in 1..Len(db) :
                       /\ db[i] = GetSelectedTodo[1]
                       /\ db' = SubSeq(db, 1, i - 1)
                                  \o SubSeq(db, i + 1, Len(db))
                /\ selectedTodoId' = <<>> )]_vars

\* C11: select with the selection unset reads a 1-based index into the
\* visible page: an index in 1..|visible page| sets the selection so that the
\* resolved selected todo is the record at that position, an index of 0 or
\* beyond the page re-prompts and changes neither view state nor store; with
\* the selection set, S unsets it without prompting.
C11_SelectByIndex ==
    [][/\ \A line \in IndexLines :
              selectTodoLine(line) =>
                  IF ToNumber(Trim(line)) \in 1..Len(GetVisibleTodos)
                  THEN /\ selectedTodoId' # <<>>
                       /\ SelectedTodo(GetVisibleTodos, selectedTodoId')
                              = <<GetVisibleTodos[ToNumber(Trim(line))]>>
                       /\ UNCHANGED <<db, page, pageSize, search, order,
                                      sortBy, hideCompleted>>
                  ELSE UNCHANGED <<db, viewVars, pc>>
       /\ \A input \in Keys :
              (selectedTodoId # <<>> /\ selectTodo(input)) =>
                  /\ selectedTodoId' = <<>>
                  /\ pc' # "selectTodo"
                  /\ UNCHANGED <<db, page, pageSize, search, order, sortBy,
                                 hideCompleted>>]_vars

\* The view state is the one the session starts with.
DefaultView ==
    /\ page = 1
    /\ pageSize = 10
    /\ search = <<>>
    /\ order = "asc"
    /\ sortBy = "timestamp"
    /\ hideCompleted = FALSE
    /\ selectedTodoId = <<>>

\* C12: add with a non-empty title appends exactly one record to the end of
\* the store, with that title, done = false and id = (number of records
\* before the add) + 1, and leaves the existing records unchanged; an empty
\* line is rejected and re-prompted without changing the store; from the
\* empty dataset with the default view state one add yields a render with
\* exactly one entry and page 1 of 1.
C12_AddAppendsOneRecord ==
    [][\A line \in TextLines :
           /\ \A now \in 1..MaxTime :
                  addTodoLine(line, now) =>
                      /\ Trim(line) # <<>>
                      /\ Len(db') = Len(db) + 1
                      /\ SubSeq(db', 1, Len(db)) = db
                      /\ db'[Len(db')].title = Trim(line)
                      /\ db'[Len(db')].done = FALSE
                      /\ db'[Len(db')].id = Len(db) + 1
                      /\ (db = <<>> /\ DefaultView) =>
                             /\ Len(VisibleTodos(db', hideCompleted', search',
                                                 sortBy', order', page',
                                                 pageSize')) = 1
                             /\ page' = 1
                             /\ MaxPage(db', hideCompleted', search', sortBy',
                                        order', pageSize') = 1
           /\ (pc = "addTodo" /\ Trim(line) = <<>>
                 /\ requestInputLineRejected(line)) =>
                  /\ lastMsg' = "EntradaInvalida"
                  /\ UNCHANGED <<db, viewVars, pc>>]_vars

\* An add has put a second record, with id 2, behind a stored record that
\* also has id 2 (the add came after a delete), and the loop offers commands.
C12_Witness ==
    /\ pc = "menu"
    /\ Len(db) = 2
    /\ db[1].id = 2
    /\ db[2] = [id |-> 2, timestamp |-> 2, title |-> <<"a">>, done |-> FALSE]

----------------------------------------------------------------------------
(* The query engine over stored datasets: a session that finds records in  *)
(* todos.json and in which the user issues the view commands only (list,   *)
(* search, sort, hide completed, page size, next and previous page) and    *)
(* quits.                                                                  *)

\* A dataset of four records left by earlier sessions: two created within
\* the same clock reading, done and not done mixed, titles with a space, a
\* dot and capitals.
MixedTodos ==
    << [id |-> 1, timestamp |-> 1, title |-> <<"b", " ", "a">>,
        done |-> FALSE],
       [id |-> 2, timestamp |-> 1, title |-> <<"a", ".", "b">>,
        done |-> TRUE],
       [id |-> 3, timestamp |-> 1, title |-> <<"A", "x", "B">>,
        done |-> FALSE],
       [id |-> 4, timestamp |-> 2, title |-> <<"a">>, done |-> TRUE] >>

\* A dataset of fifteen records not done, created one after the other.
FifteenTodos ==
    [i \in 1..15 |->
        [id |-> i, timestamp |-> i, title |-> <<"a">>, done |-> FALSE]]

\* The contents of todos.json the session may start with.
QueryDatasets == { <<>>, MixedTodos }

\* Key chunks: the letters of the view commands, of quit and of the sort
\* prompts, a letter that is no command, and the escape sequences of the
\* right and left arrow keys (ESC [ C and ESC [ D).
QueryKeys ==
    { <<"q">>, <<"l">>, <<"b">>, <<"r">>, <<"z">>, <<"v">>, <<"c">>, <<"w">>,
      <<"t">>, <<"s">>, <<"d">>, <<"k">>, <<"C">>,
      <<"ESC", "[", "C">>, <<"ESC", "[", "D">> }

\* Lines typed at the search prompt: one term, two terms separated by a
\* space, by two spaces and by a tab, and a term with a dot.
QuerySearchLines ==
    { <<>>, <<"A">>, <<"a", " ", "b">>, <<"b", " ", " ", "a">>,
      <<"a", "\t", "b">>, <<"a", ".", "b">> }

\* Lines typed at the page size prompt.
QuerySizeLines ==
    { <<"0">>, <<"0", "0">>, <<"2">>, <<"0", "5">>, <<"1", "0">>, <<"x">>,
      <<>> }

InitQuery ==
    /\ db \in QueryDatasets
    /\ page = 1
    /\ pageSize = 10
    /\ search = <<>>
    /\ order = "asc"
    /\ sortBy = "timestamp"
    /\ hideCompleted = FALSE
    /\ selectedTodoId = <<>>
    /\ pc = "menu"
    /\ availableActions = BuildActionsRegex(ListActions)
    /\ lastMsg = ""
    /\ renders = 1

NextQuery ==
    \/ \E input \in QueryKeys :
           \/ requestInputKeyRejected(input)
           \/ handleActionInvalid(input)
           \/ listTodos(input)
           \/ bye(input)
           \/ searchTodo(input)
           \/ toggleHideCompleted(input)
           \/ sortTodos(input)
           \/ sortTodosSortBy(input)
           \/ sortTodosOrder(input)
           \/ nextPage(input)
           \/ previousPage(input)
           \/ changePageSize(input)
    \/ \E line \in QuerySearchLines : searchTodoLine(line)
    \/ \E line \in QuerySizeLines :
           \/ requestInputLineRejected(line)
           \/ changePageSizeLine(line)

QuerySpec == InitQuery /\ [][NextQuery]_vars

----------------------------------------------------------------------------
(* Paging over stored datasets: a session that finds records in todos.json *)
(* and in which the user lists, pages, changes the page size, hides        *)
(* completed records and sorts.                                            *)

PageDatasets == { MixedTodos, FifteenTodos }

\* Key chunks: the letters of the paging, hide and sort commands and of the
\* sort prompts, and a letter that is no command.
PageKeys ==
    { <<"l">>, <<"v">>, <<"c">>, <<"w">>, <<"z">>, <<"r">>, <<"t">>,
      <<"s">>, <<"d">>, <<"k">> }

\* Lines typed at the page size prompt.
PageSizeLines == { <<"0">>, <<"2">>, <<"0", "5">>, <<"1", "0">> }

InitPage ==
    /\ db \in PageDatasets
    /\ page = 1
    /\ pageSize = 10
    /\ search = <<>>
    /\ order = "asc"
    /\ sortBy = "timestamp"
    /\ hideCompleted = FALSE
    /\ selectedTodoId = <<>>
    /\ pc = "menu"
    /\ availableActions = BuildActionsRegex(ListActions)
    /\ lastMsg = ""
    /\ renders = 1

NextPage ==
    \/ \E input \in PageKeys :
           \/ requestInputKeyRejected(input)
           \/ listTodos(input)
           \/ toggleHideCompleted(input)
           \/ sortTodos(input)
           \/ sortTodosSortBy(input)
           \/ sortTodosOrder(input)
           \/ nextPage(input)
           \/ previousPage(input)
           \/ changePageSize(input)
    \/ \E line \in PageSizeLines : changePageSizeLine(line)

PageSpec == InitPage /\ [][NextPage]_vars

----------------------------------------------------------------------------
(* Properties of the query engine.                                         *)

\* The whitespace-separated terms of a text: its maximal runs of characters
\* other than whitespace.
WhitespaceTerms(text) ==
    { SubSeq(text, r[1], r[2]) :
        r \in { q \in (1..Len(text)) \X (1..Len(text)) :
                  /\ q[1] <= q[2]
                  /\ \A i \in q[1]..q[2] : ~IsSpace(text[i])
                  /\ (q[1] = 1 \/ IsSpace(text[q[1] - 1]))
                  /\ (q[2] = Len(text) \/ IsSpace(text[q[2] + 1])) } }

\* term occurs in title as a literal substring, letters compared without
\* case.
ContainsLiteral(term, title) ==
    \E start \in 0..(Len(title) - Len(term)) :
        \A i \in 1..Len(term) :
            ToUpperChar(term[i]) = ToUpperChar(title[start + i])

\* The stored records that are not done whenever completed records are
\* hidden and whose title contains every whitespace-separated term of the
\* search text, in stored order.
KeptRecords ==
    SelectSeq(db, LAMBDA t :
        /\ (hideCompleted => ~t.done)
        /\ \A term \in WhitespaceTerms(search) :
               ContainsLiteral(term, t.title))

\* C13: the filtered set is exactly the stored records that are not done
\* whenever hideCompleted is true and that contain every whitespace-separated
\* term of the search text as a case-insensitive literal substring of the
\* title; with hideCompleted false and an empty search text it is the whole
\* dataset.
C13_FilteredSet ==
    ~SortThrows(db, hideCompleted, search, sortBy) =>
        /\ Len(GetFilteredTodos) = Len(KeptRecords)
        /\ { GetFilteredTodos[i] : i \in 1..Len(GetFilteredTodos) }
               = { KeptRecords[i] : i \in 1..Len(KeptRecords) }
        /\ (~hideCompleted /\ search = <<>>) =>
               { GetFilteredTodos[i] : i \in 1..Len(GetFilteredTodos) }
                   = { db[i] : i \in 1..Len(db) }

\* The visible pages 1..k, one after the other.
RECURSIVE PagesUpTo(_)
PagesUpTo(k) ==
    IF k = 0 THEN <<>>
    ELSE PagesUpTo(k - 1)
           \o VisibleTodos(db, hideCompleted, search, sortBy, order, k,
                           pageSize)

\* C14: the visible page is exactly the elements at 0-based positions
\* (page-1)*pageSize up to but excluding page*pageSize of the filtered and
\* sorted sequence, so it has at most pageSize elements and the pages
\* 1..maxPage partition the sequence in order; with 15 todos and pageSize 10,
\* page 1 shows 10, the next page shows the remaining 5, and next-page is
\* then not offered.
C14_VisiblePageIsSlice ==
    LET first == (page - 1) * pageSize
        count == IF Len(GetFilteredTodos) <= first THEN 0
                 ELSE Min(pageSize, Len(GetFilteredTodos) - first)
    IN  /\ Len(GetVisibleTodos) = count
        /\ \A i \in 1..count :
               GetVisibleTodos[i] = GetFilteredTodos[first + i]
        /\ Len(GetVisibleTodos) <= pageSize
        /\ PagesUpTo(GetMaxPage) = GetFilteredTodos
        /\ ( /\ pc = "menu"
             /\ db = FifteenTodos
             /\ ~hideCompleted
             /\ search = <<>>
             /\ pageSize = 10 ) =>
               /\ page = 1 => /\ Len(GetVisibleTodos) = 10
                              /\ "V" \in availableActions
               /\ page = 2 => /\ Len(GetVisibleTodos) = 5
                              /\ "V" \notin availableActions

\* Fifteen todos with page size 10 after next-page: page 2 shows five
\* records and next-page is not offered.
C14_Witness ==
    /\ pc = "menu"
    /\ db = FifteenTodos
    /\ pageSize = 10
    /\ page = 2
    /\ Len(GetVisibleTodos) = 5
    /\ "V" \notin availableActions
    /\ "C" \in availableActions

\* A sequence of records runs from not done to done and, within equal
\* status, in ascending creation-timestamp order.
StatusOrdered(todos) ==
    \A i \in 1..Len(todos) : \A j \in (i + 1)..Len(todos) :
        /\ ~(todos[i].done /\ ~todos[j].done)
        /\ todos[i].done = todos[j].done =>
               todos[i].timestamp <= todos[j].timestamp

\* C15 as stated: with sort key status, every record not done precedes
\* every record done in the derived sequence, and records of equal status
\* appear in ascending creation-timestamp order.
C15_StatusOrder ==
    (sortBy = "status" /\ pc # "crashed") => StatusOrdered(GetFilteredTodos)

\* C15 as amended: the same with sort order asc; with sort order desc it is
\* the reverse of the derived sequence that runs so.
C15_StatusOrderAscending ==
    (sortBy = "status" /\ pc # "crashed") =>
        /\ order = "asc" => StatusOrdered(GetFilteredTodos)
        /\ order = "desc" => StatusOrdered(Reverse(GetFilteredTodos))

\* The four-record dataset sorted by status, ascending, without filters:
\* the derived sequence differs from the stored order.
C15_Witness ==
    /\ pc = "menu"
    /\ sortBy = "status"
    /\ order = "asc"
    /\ db = MixedTodos
    /\ ~hideCompleted
    /\ search = <<>>
    /\ GetFilteredTodos = <<db[1], db[3], db[2], db[4]>>

\* The derived sequence of the current dataset and filters under sort order
\* ord.
DerivedUnder(ord) == FilteredTodos(db, hideCompleted, search, sortBy, ord)

\* C16: with sort key createdAt and sort order asc the derived sequence is
\* the filtered records in storage order; for any sort key, the derived
\* sequence under desc is the exact reverse of the derived sequence under asc
\* for the same dataset, filter and sort key.
C16_StorageOrderAndReverse ==
    (sortBy \in {"timestamp", "status", "title"} /\ pc # "crashed") =>
        /\ (sortBy = "timestamp" /\ order = "asc") =>
               GetFilteredTodos =
                   SelectSeq(db, LAMBDA t :
                       \E i \in 1..Len(GetFilteredTodos) :
                           GetFilteredTodos[i] = t)
        /\ Len(DerivedUnder("desc")) = Len(DerivedUnder("asc"))
        /\ \A i \in 1..Len(DerivedUnder("asc")) :
               DerivedUnder("desc")[i]
                   = DerivedUnder("asc")[Len(DerivedUnder("asc")) + 1 - i]

\* The four-record dataset sorted by title, descending, without filters.
C16_Witness ==
    /\ pc = "menu"
    /\ sortBy = "title"
    /\ order = "desc"
    /\ db = MixedTodos
    /\ ~hideCompleted
    /\ search = <<>>
    /\ GetFilteredTodos = <<db[1], db[3], db[2], db[4]>>

----------------------------------------------------------------------------
(* Further properties of the session.                                      *)

\* C17: the stored dataset changes only through add, toggle-done, edit and
\* delete: list, search toggle, sort toggle, hide-completed toggle, page-size
\* change, next and previous page and select/deselect leave every stored
\* record and the storage order unchanged, and a render that follows a
\* render with no command in between (the list command) shows the same
\* visible sequence.
C17_ViewCommandsKeepStore ==
    [][/\ db' # db =>
              \/ \E line \in TextLines : \E now \in 1..MaxTime :
                     addTodoLine(line, now)
              \/ \E line \in TextLines : editTodoLine(line)
              \/ \E input \in Keys :
                     toggleTodoDone(input) \/ deleteTodo(input)
       /\ \A input \in Keys :
              listTodos(input) =>
                  VisibleTodos(db', hideCompleted', search', sortBy', order',
                               page', pageSize') = GetVisibleTodos]_vars

\* The loop offers commands with the records sorted by title, the derived
\* sequence in another order than the store.
C17_Witness ==
    /\ pc = "menu"
    /\ sortBy = "title"
    /\ order = "asc"
    /\ Len(db) = 2
    /\ db[1].title = <<"a">>
    /\ db[2].title = <<>>
    /\ GetFilteredTodos = <<db[2], db[1]>>

\* C18: edit with a resolved selection overwrites the title of exactly the
\* record shown as selected with the line read (the empty line is accepted
\* and blanks the title), and changes no other record, no done flag, no id
\* and no view-state field, the selection included.
C18_EditOverwritesShownTitle ==
    [][\A line \in TextLines :
           ( /\ pc = "editTodo"
             /\ ResolvedSelected
             /\ editTodoLine(line) )
           => ( /\ \E i \in 1..Len(db) :
                       /\ db[i] = GetSelectedTodo[1]
                       /\ db' = [db EXCEPT ![i].title = Trim(line)]
                /\ UNCHANGED viewVars )]_vars

SortKeyChoices ==
    { <<"T", "title">>, <<"S", "status">>, <<"C", "timestamp">> }

SortOrderChoices == { <<"C", "asc">>, <<"D", "desc">> }

\* C20: sort toggle: if the current sort is not (createdAt, asc) it resets
\* the sort key to createdAt and the sort order to asc without prompting;
\* otherwise it reads a sort key out of three choices and then an order out
\* of two choices and sets the sort key and the sort order to exactly the
\* chosen values; no other view-state field changes.
C20_SortToggle ==
    [][\A input \in QueryKeys :
           /\ (IsSorted /\ sortTodos(input)) =>
                  /\ sortBy' = "timestamp"
                  /\ order' = "asc"
                  /\ pc' \notin {"sortTodos_sortBy", "sortTodos_order"}
                  /\ UNCHANGED <<db, page, pageSize, search, hideCompleted,
                                 selectedTodoId>>
           /\ (~IsSorted /\ sortTodos(input)) =>
                  /\ pc' = "sortTodos_sortBy"
                  /\ UNCHANGED <<db, viewVars>>
           /\ sortTodosSortBy(input) =>
                  /\ \E choice \in SortKeyChoices : sortBy' = choice[2]
                  /\ \A choice \in SortKeyChoices :
                         ToUpperCase(input) = <<choice[1]>> =>
                             sortBy' = choice[2]
                  /\ pc' = "sortTodos_order"
                  /\ UNCHANGED <<db, page, pageSize, search, order,
                                 hideCompleted, selectedTodoId>>
           /\ sortTodosOrder(input) =>
                  /\ \E choice \in SortOrderChoices : order' = choice[2]
                  /\ \A choice \in SortOrderChoices :
                         ToUpperCase(input) = <<choice[1]>> =>
                             order' = choice[2]
                  /\ UNCHANGED <<db, page, pageSize, search, sortBy,
                                 hideCompleted, selectedTodoId>>]_vars

\* C21: search toggle: if the search text is non-empty it sets the search
\* text to empty without prompting; otherwise it reads one line (any
\* content, the empty line included) and sets the search text to it; page,
\* pageSize, sort, hideCompleted and the selection are unchanged.
C21_SearchToggle ==
    [][/\ \A input \in QueryKeys :
              /\ (search # <<>> /\ searchTodo(input)) =>
                     /\ search' = <<>>
                     /\ pc' # "searchTodo"
                     /\ UNCHANGED <<db, page, pageSize, order, sortBy,
                                    hideCompleted, selectedTodoId>>
              /\ (search = <<>> /\ searchTodo(input)) =>
                     /\ pc' = "searchTodo"
                     /\ UNCHANGED <<db, viewVars>>
       /\ \A line \in QuerySearchLines :
              searchTodoLine(line) =>
                  /\ search' = Trim(line)
                  /\ pc' # "searchTodo"
                  /\ UNCHANGED <<db, page, pageSize, order, sortBy,
                                 hideCompleted, selectedTodoId>>
       /\ \A line \in QuerySearchLines \cup QuerySizeLines :
              ~(pc = "searchTodo" /\ requestInputLineRejected(line))]_vars

\* A two-term search is active on page 2 of the four-record dataset and
\* the loop offers commands.
C21_Witness ==
    /\ pc = "menu"
    /\ db = MixedTodos
    /\ search = <<"a", " ", "b">>
    /\ page = 2

\* C22: in every reachable state the sort key is one of title, status,
\* createdAt and the sort order is one of asc, desc, whatever key chunk the
\* reader accepted at the sort-key and sort-order prompts, and no accepted
\* input makes a later render fail.
C22_SortEnumsAndRenderSucceeds ==
    /\ sortBy \in {"title", "status", "timestamp"}
    /\ order \in {"asc", "desc"}
    /\ pc # "crashed"

\* The process is blocked at a prompt nested in a command handler.
AtNestedPrompt(at) ==
    at \in {"addTodo", "selectTodo", "editTodo", "searchTodo",
            "sortTodos_sortBy", "sortTodos_order", "changePageSize"}

\* C23: between two consecutive command reads of the session loop the
\* handler of the first command runs to completion, its nested prompts
\* included, and for every command other than quit the list is rendered
\* exactly once, after the handler's changes and before the next set of
\* available commands is computed.
C23_HandlerThenOneRender ==
    [][/\ AtNestedPrompt(pc') => renders' = 0
       /\ (AtNestedPrompt(pc) /\ pc' # pc) =>
              \/ pc' \in {"menu", "crashed"}
              \/ pc = "sortTodos_sortBy" /\ pc' = "sortTodos_order"
       /\ pc' = "exited" => \E input \in Keys : bye(input)
       /\ ( /\ pc' = "menu"
            /\ ~\E input \in Keys : requestInputKeyRejected(input) ) =>
              /\ renders' = 1
              /\ availableActions' =
                     BuildActionsRegex(
                         AvailableActions(db', hideCompleted', search',
                                          sortBy', order', page', pageSize',
                                          selectedTodoId'))]_vars

\* C24: the session ends only through the quit command, quit is offered
\* exactly when no todo is resolved-selected, and from every reachable state
\* quit can be reached: at the command prompt by at most one deselect
\* followed by Q.
C24_EndsOnlyThroughQuit ==
    /\ pc # "crashed"
    /\ pc = "menu" =>
           /\ "Q" \in availableActions <=> ~ResolvedSelected
           /\ ResolvedSelected => "S" \in availableActions

\* The command prompt on a page left beyond the last page: the filtered set
\* is non-empty, the visible page is empty and no todo is resolved-selected.
BeyondLastPage ==
    /\ pc = "menu"
    /\ Len(GetFilteredTodos) > 0
    /\ GetVisibleTodos = <<>>
    /\ GetSelectedTodo = <<>>

\* C25: on a page left beyond the last page previous-page is offered, and
\* repeating it reaches a non-empty visible page without the page dropping
\* below 1: the last page is at least 1, below the current page and
\* non-empty, every page in between is empty, and each previous-page step
\* lowers the page by exactly one, never below 1 nor past the last page.
C25_PreviousPageRecovers ==
    /\ [](BeyondLastPage =>
            /\ "C" \in availableActions
            /\ 1 <= GetMaxPage /\ GetMaxPage < page
            /\ VisibleTodos(db, hideCompleted, search, sortBy, order,
                            GetMaxPage, pageSize) # <<>>
            /\ \A p \in (GetMaxPage + 1)..page :
                   /\ VisibleTodos(db, hideCompleted, search, sortBy, order,
                                   p, pageSize) = <<>>
                   /\ "C" \in BuildActionsRegex(
                          AvailableActions(db, hideCompleted, search, sortBy,
                                           order, p, pageSize,
                                           selectedTodoId)))
    /\ [][page' < page =>
            /\ \E input \in PageKeys : previousPage(input)
            /\ page' = page - 1 /\ page' >= 1
            /\ BeyondLastPage => page' >= GetMaxPage]_vars

\* C25 witness: the command prompt two or more pages beyond the last page
\* of the fifteen-record dataset.
C25_Witness ==
    /\ BeyondLastPage
    /\ db = FifteenTodos
    /\ page >= GetMaxPage + 2

\* C26: whenever the select handler waits at its index prompt, no selection
\* is set and the visible page is non-empty, so some line the reader accepts
\* is an index within range and ends the re-prompt loop.
C26_SelectPromptHasValidIndex ==
    pc = "selectTodo" =>
        /\ ~IsSelectionSet(selectedTodoId)
        /\ Len(GetVisibleTodos) >= 1
        /\ \E line \in IndexLines :
               /\ LineAccepted(Trim(line))
               /\ ToNumber(Trim(line)) \in 1..Len(GetVisibleTodos)

\* C26 witness: the index prompt repeated after an out-of-range index, on a
\* page of one record reached on page 2.
C26_Witness ==
    /\ pc = "selectTodo"
    /\ lastMsg = "TodoNaoEncontrado"
    /\ page = 2
    /\ Len(GetVisibleTodos) = 1

====
